---- MODULE Spec2Model ----
(***************************************************************************)
(* Model of the OpenThread platform module of Zephyr                       *)
(* (modules/openthread/platform/openthread.c): the API mutex               *)
(* openthread_lock, the state-change callback list                         *)
(* openthread_state_change_cbs, the work item openthread_work on the       *)
(* queue openthread_work_q, and the network bring-up in openthread_run.    *)
(*                                                                         *)
(* Contexts: the work-queue thread (Worker) and two application            *)
(* threads.  The OpenThread engine is external: its return values are      *)
(* nondeterministic, and it invokes the callbacks of this module           *)
(* (ot_state_changed_handler, ot_joiner_start_handler) from inside         *)
(* otTaskletsProcess, i.e. in the context that processes tasklets.         *)
(***************************************************************************)
EXTENDS Integers, Sequences, FiniteSets, TLC

\* ---------------------------------------------------------------- bounds
NumRec == 2          \* callback records with a notify function
MaxSignals == 2      \* signals counted between two activations
NumFlags == 2        \* distinct otChangedFlags values

\* ------------------------------------------------------------- constants
NULL == 0
OT_ERROR_NONE == 0
OT_ERROR_FAILED == 1
EINVAL == 22
EALREADY == 120
EIO == 5
EBUSY == 16

Worker == 0
NoOwner == -1
Threads == {1, 2}        \* two application threads calling the API
Ctx == {Worker} \cup Threads
Rec == 1..NumRec
NoFnRec == NumRec + 1   \* a record whose openthread_state_changed_cb is NULL
AllRec == Rec \cup {NoFnRec}
Flags == 1..NumFlags
OtErrors == {OT_ERROR_NONE, OT_ERROR_FAILED}

\* Build configurations (Kconfig): JOINER_AUTOSTART, COPROCESSOR,
\* NAT64_TRANSLATOR, and whether CONFIG_OPENTHREAD_NETWORKKEY is non-empty;
\* and, of the kernel the module is built with, whether k_mutex_lock by the
\* owner of the mutex is granted (FALSE: the lock is not re-entrant).
Configs ==
  { [autojoin |-> FALSE, coprocessor |-> FALSE, nat64 |-> FALSE, netkey |-> TRUE,
      mutex_recursive |-> FALSE],
    [autojoin |-> TRUE,  coprocessor |-> FALSE, nat64 |-> FALSE, netkey |-> FALSE,
      mutex_recursive |-> FALSE],
    [autojoin |-> FALSE, coprocessor |-> FALSE, nat64 |-> TRUE,  netkey |-> FALSE,
      mutex_recursive |-> FALSE],
    [autojoin |-> FALSE, coprocessor |-> TRUE,  nat64 |-> FALSE, netkey |-> TRUE,
      mutex_recursive |-> FALSE] }

DefaultConfig ==
  [autojoin |-> FALSE, coprocessor |-> FALSE, nat64 |-> FALSE, netkey |-> TRUE,
   mutex_recursive |-> FALSE]

VARIABLES
  cfg,                 \* the build configuration
  openthread_instance, \* static otInstance *openthread_instance (TRUE = non-NULL)
  lock_owner,          \* static struct k_mutex openthread_lock: its owner
  wq_started,          \* openthread_work_q has been started
  wq_pending,          \* number of entries in the pending list of openthread_work_q
  work_queued,         \* openthread_work: K_WORK_QUEUED flag
  work_running,        \* openthread_work: K_WORK_RUNNING flag
  slist_head,          \* openthread_state_change_cbs.head
  slist_tail,          \* openthread_state_change_cbs.tail
  node_next,           \* cb->node.next of every record
  eng,                 \* engine state seen through the OpenThread API
  pc,                  \* position of every context
  arg,                 \* argument cb of register / unregister
  err,                 \* local otError error of openthread_run
  removed,             \* local bool removed of unregister
  ret,                 \* value returned by the finished call
  trace,               \* engine calls made by the current call of a thread
  htrace,              \* engine calls made by the current join handler run
  jh_error,            \* argument error of ot_joiner_start_handler
  it_entry,            \* entry of SYS_SLIST_FOR_EACH_CONTAINER_SAFE
  it_next,             \* next  of SYS_SLIST_FOR_EACH_CONTAINER_SAFE
  cur_flags,           \* argument flags of ot_state_changed_handler
  notif_log,           \* callbacks invoked by the current notification pass
  cbu,                 \* the unregister call a running callback makes: cb, removed
  pass_members,        \* members when the current notification pass began
  pass_unreg,          \* unregistrations made by callbacks of the current pass
  wtrace,              \* calls made by the current run of openthread_process
  members,             \* records registered and not unregistered, in order
  sigs,                \* signals since the worker last took the work item
  initialized,         \* some openthread_init call has returned true
  init_count,          \* calls of otInstanceInitSingle, k_mutex_init, ... so far
  dup_seen             \* a record was registered while being a member

vars == << cfg, openthread_instance, lock_owner, wq_started, wq_pending,
           work_queued, work_running, slist_head, slist_tail, node_next,
           eng, pc, arg, err, removed, ret, trace, htrace, jh_error,
           it_entry, it_next, cur_flags, notif_log, cbu, pass_members,
           pass_unreg, wtrace, members, sigs,
           initialized, init_count, dup_seen >>

mutexVars == << lock_owner >>
workVars == << wq_started, wq_pending, work_queued, work_running, sigs >>
listVars == << slist_head, slist_tail, node_next, members, dup_seen >>
threadLocals == << arg, err, removed, ret, trace >>
cbVars == << cbu, pass_members, pass_unreg >>
handlerLocals == << htrace, jh_error, it_entry, it_next, cur_flags, notif_log,
                   cbVars >>
handlerVars == << handlerLocals, wtrace >>

\* ------------------------------------------------------------ k_mutex
\* openthread_lock is free
k_mutex_free == lock_owner = NoOwner

\* mutant: the owner's second k_mutex_lock is always granted
k_mutex_lock_grant_owner(c) == k_mutex_free \/ lock_owner = c

\* k_mutex_lock(&openthread_lock, K_FOREVER) can return for c
k_mutex_lock_grant(c) == k_mutex_free \/ (cfg.mutex_recursive /\ lock_owner = c)

\* ------------------------------------------------------------ sys_slist
user_data(r) == 100 + r
cb_fn_set(r) == r \in Rec

\* mutant: the tail is set only for the first node
slist_append_tail_stale(n) == IF slist_tail = NULL THEN n ELSE slist_tail

\* sys_slist_append: node->next = NULL; link after the tail; tail = node
slist_append_next(n) ==
  LET cleared == [node_next EXCEPT ![n] = NULL]
  IN  IF slist_tail = NULL THEN cleared
      ELSE [cleared EXCEPT ![slist_tail] = n]

slist_append_head(n) == IF slist_tail = NULL THEN n ELSE slist_head

slist_append_tail(n) == n

\* the nodes reached from node n by following next, at most fuel of them
RECURSIVE slist_walk(_, _, _)
slist_walk(nxt, n, fuel) ==
  IF n = NULL \/ fuel = 0 THEN << >>
  ELSE << n >> \o slist_walk(nxt, nxt[n], fuel - 1)

\* the list as a sequence, cut after NumRec + 1 nodes
ListSeq == slist_walk(node_next, slist_head, NumRec + 1)

SeqSet(s) == { s[i] : i \in 1..Len(s) }

\* sys_slist_find_and_remove: position of node n in the list, 0 when absent
slist_find(n) ==
  LET s == ListSeq
  IN  IF \E i \in 1..Len(s) : s[i] = n
      THEN CHOOSE i \in 1..Len(s) : s[i] = n /\ \A j \in 1..(i - 1) : s[j] # n
      ELSE 0

\* the search of sys_slist_find_and_remove terminates: it finds n or reaches NULL
slist_find_terminates(n) == slist_find(n) # 0 \/ Len(ListSeq) <= NumRec

\* sys_slist_remove(list, prev, node) for the node at position i
slist_remove_head(i) == IF i = 1 THEN node_next[ListSeq[1]] ELSE slist_head

slist_remove_tail(i) ==
  LET n == ListSeq[i]
  IN  IF slist_tail # n THEN slist_tail
      ELSE IF i = 1 THEN node_next[n] ELSE ListSeq[i - 1]

slist_remove_next(i) ==
  LET n == ListSeq[i]
      relinked == IF i = 1 THEN node_next
                  ELSE [node_next EXCEPT ![ListSeq[i - 1]] = node_next[n]]
  IN  [relinked EXCEPT ![n] = NULL]

\* the sequence s without its elements equal to r
RECURSIVE SeqWithout(_, _)
SeqWithout(s, r) ==
  IF s = << >> THEN << >>
  ELSE IF Head(s) = r THEN SeqWithout(Tail(s), r)
  ELSE << Head(s) >> \o SeqWithout(Tail(s), r)

\* ------------------------------------------------------------ k_work
\* mutant: every submission adds an entry, also when the item is already queued
k_work_submit_appends == IF wq_started THEN wq_pending + 1 ELSE wq_pending

\* mutant: a submission while the handler runs is dropped
k_work_submit_drops_running ==
  IF wq_started /\ ~work_queued /\ ~work_running THEN wq_pending + 1
  ELSE wq_pending

\* k_work_submit_to_queue(&openthread_work_q, &openthread_work):
\* number of entries of the pending list afterwards
k_work_submit_pending ==
  IF wq_started /\ ~work_queued THEN wq_pending + 1 ELSE wq_pending

\* ... and the K_WORK_QUEUED flag afterwards
k_work_submit_queued == IF wq_started THEN TRUE ELSE work_queued

\* signals counted since the worker last took the work item
k_work_submit_sigs == IF wq_started THEN sigs + 1 ELSE sigs

\* ------------------------------------------------------------------ Init
\* the statics of openthread.c before the first call
InitStatics ==
  /\ openthread_instance = FALSE
  /\ lock_owner = NoOwner
  /\ wq_started = FALSE
  /\ wq_pending = 0
  /\ work_queued = FALSE
  /\ work_running = FALSE
  /\ slist_head = NULL
  /\ slist_tail = NULL
  /\ node_next = [r \in AllRec |-> NULL]
  /\ eng \in [commissioned : BOOLEAN, joining : {FALSE}, tasklets : {FALSE},
              sc_cb : {FALSE}]
  /\ pc = [c \in Ctx |-> "idle"]
  /\ arg = [c \in Threads |-> NULL]
  /\ err = [c \in Threads |-> OT_ERROR_NONE]
  /\ removed = [c \in Threads |-> FALSE]
  /\ ret = [c \in Threads |-> 0]
  /\ trace = [c \in Threads |-> << >>]
  /\ htrace = << >>
  /\ jh_error = OT_ERROR_NONE
  /\ it_entry = NULL
  /\ it_next = NULL
  /\ cur_flags = 0
  /\ notif_log = << >>
  /\ cbu = [cb |-> NULL, removed |-> FALSE]
  /\ pass_members = << >>
  /\ pass_unreg = << >>
  /\ wtrace = << >>
  /\ members = << >>
  /\ sigs = 0
  /\ initialized = FALSE
  /\ init_count = [instance |-> 0, mutex |-> 0, slist |-> 0, queue |-> 0]
  /\ dup_seen = FALSE

Init ==
  /\ cfg \in Configs
  /\ InitStatics

\* a thread may start an API call other than openthread_init
CanCall(c) == pc[c] = "idle" /\ initialized

\* no other thread is inside openthread_init
NoInitRunning(c) ==
  \A d \in Threads \ {c} :
    pc[d] \notin {"init_guard", "init_kinit", "init_lock", "init_instance",
                  "init_nat64", "init_slist", "init_unlock", "init_start",
                  "init_submit"}

\* --------------------------------------------------------- openthread_init
\* a thread calls openthread_init while no other thread is inside it
InitCall(c) ==
  /\ pc[c] = "idle"
  /\ NoInitRunning(c)
  /\ pc' = [pc EXCEPT ![c] = "init_guard"]
  /\ UNCHANGED << cfg, openthread_instance, mutexVars, workVars, listVars, eng,
                  threadLocals, handlerVars, initialized, init_count >>

\* mutant: the guard against multiple initializations is missing
init_guard_missing(instance) == FALSE

\* Prevent multiple initializations: if (openthread_instance)
init_guard_skips(instance) == instance

\* a thread calls openthread_init, whatever the other threads are doing
InitCallConcurrent(c) ==
  /\ pc[c] = "idle"
  /\ pc' = [pc EXCEPT ![c] = "init_guard"]
  /\ UNCHANGED << cfg, openthread_instance, mutexVars, workVars, listVars, eng,
                  threadLocals, handlerVars, initialized, init_count >>

\* if (openthread_instance) return true;
InitGuard(c) ==
  /\ pc[c] = "init_guard"
  /\ IF init_guard_skips(openthread_instance)
     THEN /\ pc' = [pc EXCEPT ![c] = "init_done"]
          /\ ret' = [ret EXCEPT ![c] = 1]
          /\ initialized' = TRUE
     ELSE /\ pc' = [pc EXCEPT ![c] = "init_kinit"]
          /\ UNCHANGED << ret, initialized >>
  /\ UNCHANGED << cfg, openthread_instance, mutexVars, workVars, listVars, eng,
                  arg, err, removed, trace, handlerVars, init_count >>

\* k_mutex_init(&openthread_lock); k_work_init(&openthread_work, ...)
InitKernelObjects(c) ==
  /\ pc[c] = "init_kinit"
  /\ lock_owner' = NoOwner
  /\ init_count' = [init_count EXCEPT !.mutex = @ + 1]
  /\ work_queued' = FALSE
  /\ work_running' = FALSE
  /\ pc' = [pc EXCEPT ![c] = "init_lock"]
  /\ UNCHANGED << cfg, openthread_instance, wq_started, wq_pending, sigs,
                  listVars, eng, threadLocals, handlerVars, initialized >>

InitLock(c) ==
  /\ pc[c] = "init_lock"
  /\ k_mutex_lock_grant(c)
  /\ lock_owner' = c
  /\ pc' = [pc EXCEPT ![c] = "init_instance"]
  /\ UNCHANGED << cfg, openthread_instance, workVars, listVars, eng,
                  threadLocals, handlerVars, initialized, init_count >>

\* otSysInit(0, NULL); openthread_instance = otInstanceInitSingle();
InitInstance(c) ==
  /\ pc[c] = "init_instance"
  /\ openthread_instance' = TRUE
  /\ init_count' = [init_count EXCEPT !.instance = @ + 1]
  /\ trace' = [trace EXCEPT ![c] = Append(@, << "otInstanceInitSingle", 0 >>)]
  /\ pc' = [pc EXCEPT ![c] =
              IF cfg.coprocessor THEN "init_unlock"
              ELSE IF cfg.nat64 THEN "init_nat64" ELSE "init_slist"]
  /\ UNCHANGED << cfg, mutexVars, workVars, listVars, eng, arg, err, removed,
                  ret, handlerVars, initialized >>

\* otIp4CidrFromString / otNat64SetIp4Cidr; return false on failure
InitNat64(c) ==
  /\ pc[c] = "init_nat64"
  /\ \E e \in OtErrors :
       IF e = OT_ERROR_NONE
       THEN /\ pc' = [pc EXCEPT ![c] = "init_slist"]
            /\ UNCHANGED ret
       ELSE /\ pc' = [pc EXCEPT ![c] = "init_done"]
            /\ ret' = [ret EXCEPT ![c] = 0]
  /\ UNCHANGED << cfg, openthread_instance, mutexVars, workVars, listVars, eng,
                  arg, err, removed, trace, handlerVars, initialized, init_count >>

\* sys_slist_init(...); err = otSetStateChangedCallback(...); return false on failure
InitSlist(c) ==
  /\ pc[c] = "init_slist"
  /\ slist_head' = NULL
  /\ slist_tail' = NULL
  /\ init_count' = [init_count EXCEPT !.slist = @ + 1]
  /\ \E e \in OtErrors :
       IF e = OT_ERROR_NONE
       THEN /\ eng' = [eng EXCEPT !.sc_cb = TRUE]
            /\ pc' = [pc EXCEPT ![c] = "init_unlock"]
            /\ UNCHANGED ret
       ELSE /\ pc' = [pc EXCEPT ![c] = "init_done"]
            /\ ret' = [ret EXCEPT ![c] = 0]
            /\ UNCHANGED eng
  /\ UNCHANGED << cfg, openthread_instance, mutexVars, workVars, node_next,
                  members, dup_seen, arg, err, removed, trace, handlerVars,
                  initialized >>

InitUnlock(c) ==
  /\ pc[c] = "init_unlock"
  /\ lock_owner' = IF lock_owner = c THEN NoOwner ELSE lock_owner
  /\ pc' = [pc EXCEPT ![c] = "init_start"]
  /\ UNCHANGED << cfg, openthread_instance, workVars, listVars, eng,
                  threadLocals, handlerVars, initialized, init_count >>

\* k_work_queue_start(&openthread_work_q, ...)
InitQueueStart(c) ==
  /\ pc[c] = "init_start"
  /\ wq_started' = TRUE
  /\ init_count' = [init_count EXCEPT !.queue = @ + 1]
  /\ pc' = [pc EXCEPT ![c] = "init_submit"]
  /\ UNCHANGED << cfg, openthread_instance, mutexVars, wq_pending, work_queued,
                  work_running, sigs, listVars, eng, threadLocals, handlerVars,
                  initialized >>

\* (void)k_work_submit_to_queue(...); return true;
InitSubmit(c) ==
  /\ pc[c] = "init_submit"
  /\ wq_pending' = k_work_submit_pending
  /\ work_queued' = k_work_submit_queued
  /\ sigs' = k_work_submit_sigs
  /\ ret' = [ret EXCEPT ![c] = 1]
  /\ initialized' = TRUE
  /\ pc' = [pc EXCEPT ![c] = "init_done"]
  /\ UNCHANGED << cfg, openthread_instance, mutexVars, wq_started, work_running,
                  listVars, eng, arg, err, removed, trace, handlerVars,
                  init_count >>

\* a finished call returns to the caller
Return(c) ==
  /\ pc[c] \in {"init_done", "reg_done", "unreg_done", "run_done", "stop_done",
                "try_done"}
  /\ pc' = [pc EXCEPT ![c] = "idle"]
  /\ arg' = [arg EXCEPT ![c] = NULL]
  /\ err' = [err EXCEPT ![c] = OT_ERROR_NONE]
  /\ removed' = [removed EXCEPT ![c] = FALSE]
  /\ ret' = [ret EXCEPT ![c] = 0]
  /\ trace' = [trace EXCEPT ![c] = << >>]
  /\ UNCHANGED << cfg, openthread_instance, mutexVars, workVars, listVars, eng,
                  handlerVars, initialized, init_count >>

\* ------------------------------------------------ openthread_mutex_lock ...
\* an application thread calls openthread_mutex_lock()
MutexLockCall(c) ==
  /\ CanCall(c)
  /\ pc' = [pc EXCEPT ![c] = "user_lock"]
  /\ UNCHANGED << cfg, openthread_instance, mutexVars, workVars, listVars, eng,
                  threadLocals, handlerVars, initialized, init_count >>

\* k_mutex_lock(&openthread_lock, K_FOREVER) returns
MutexLock(c) ==
  /\ pc[c] = "user_lock"
  /\ k_mutex_lock_grant(c)
  /\ lock_owner' = c
  /\ pc' = [pc EXCEPT ![c] = "held"]
  /\ UNCHANGED << cfg, openthread_instance, workVars, listVars, eng,
                  threadLocals, handlerVars, initialized, init_count >>

\* mutant: the result of k_mutex_lock is dropped, as openthread_mutex_lock
\* drops it, and the call reports success
try_lock_ret_discarded(r) == 0

\* openthread_mutex_try_lock returns what k_mutex_lock(.., K_NO_WAIT) returned
try_lock_ret(r) == r

\* return k_mutex_lock(&openthread_lock, K_NO_WAIT);
MutexTryLock(c) ==
  /\ CanCall(c)
  /\ IF k_mutex_lock_grant(c)
     THEN /\ lock_owner' = c
          /\ ret' = [ret EXCEPT ![c] = try_lock_ret(0)]
          /\ pc' = [pc EXCEPT ![c] = "held"]
     ELSE /\ ret' = [ret EXCEPT ![c] = try_lock_ret(-EBUSY)]
          /\ pc' = [pc EXCEPT ![c] = "try_done"]
          /\ UNCHANGED lock_owner
  /\ UNCHANGED << cfg, openthread_instance, workVars, listVars, eng, arg, err,
                  removed, trace, handlerVars, initialized, init_count >>

\* the holder calls openthread_mutex_unlock()
MutexUnlock(c) ==
  /\ pc[c] = "held"
  /\ lock_owner' = IF lock_owner = c THEN NoOwner ELSE lock_owner
  /\ pc' = [pc EXCEPT ![c] = "idle"]
  /\ ret' = [ret EXCEPT ![c] = 0]
  /\ UNCHANGED << cfg, openthread_instance, workVars, listVars, eng, arg, err,
                  removed, trace, handlerVars, initialized, init_count >>

\* ------------------------------ openthread_state_change_callback_register
\* record cb is a member, or some thread other than c is registering it
RegisteredOrInFlight(c, cb) ==
  \/ cb \in SeqSet(members)
  \/ \E d \in Threads \ {c} :
       pc[d] \in {"reg_lock", "reg_append"} /\ arg[d] = cb

\* "as long as each of them are unique pointers": the callers that keep to the
\* documented contract pass a record that is not registered
RegisterArgAllowed(c, cb) == ~RegisteredOrInFlight(c, cb)

\* mutant: only the record pointer is checked
register_invalid_null_only(cb) == cb = NULL

\* CHECKIF(cb == NULL || cb->openthread_state_changed_cb == NULL)
register_invalid(cb) == cb = NULL \/ ~cb_fn_set(cb)

\* CHECKIF(...) return -EINVAL; openthread_mutex_lock();
RegisterCall(c) ==
  /\ CanCall(c)
  /\ \E cb \in Rec \cup {NULL, NoFnRec} :
       /\ RegisterArgAllowed(c, cb)
       /\ arg' = [arg EXCEPT ![c] = cb]
       /\ IF register_invalid(cb)
          THEN /\ ret' = [ret EXCEPT ![c] = -EINVAL]
               /\ pc' = [pc EXCEPT ![c] = "reg_done"]
          ELSE /\ pc' = [pc EXCEPT ![c] = "reg_lock"]
               /\ UNCHANGED ret
  /\ UNCHANGED << cfg, openthread_instance, mutexVars, workVars, listVars, eng,
                  err, removed, trace, handlerVars, initialized, init_count >>

RegisterLock(c) ==
  /\ pc[c] = "reg_lock"
  /\ k_mutex_lock_grant(c)
  /\ lock_owner' = c
  /\ pc' = [pc EXCEPT ![c] = "reg_append"]
  /\ UNCHANGED << cfg, openthread_instance, workVars, listVars, eng,
                  threadLocals, handlerVars, initialized, init_count >>

\* sys_slist_append(&openthread_state_change_cbs, &cb->node);
RegisterAppend(c) ==
  /\ pc[c] = "reg_append"
  /\ node_next' = slist_append_next(arg[c])
  /\ slist_head' = slist_append_head(arg[c])
  /\ slist_tail' = slist_append_tail(arg[c])
  /\ dup_seen' = (dup_seen \/ arg[c] \in SeqSet(members))
  /\ members' = IF arg[c] \in SeqSet(members) THEN members
                ELSE Append(members, arg[c])
  /\ pc' = [pc EXCEPT ![c] = "reg_unlock"]
  /\ UNCHANGED << cfg, openthread_instance, mutexVars, workVars, eng,
                  threadLocals, handlerVars, initialized, init_count >>

\* openthread_mutex_unlock(); return 0;
RegisterUnlock(c) ==
  /\ pc[c] = "reg_unlock"
  /\ lock_owner' = IF lock_owner = c THEN NoOwner ELSE lock_owner
  /\ ret' = [ret EXCEPT ![c] = 0]
  /\ pc' = [pc EXCEPT ![c] = "reg_done"]
  /\ UNCHANGED << cfg, openthread_instance, workVars, listVars, eng, arg, err,
                  removed, trace, handlerVars, initialized, init_count >>

\* A caller that breaks the contract: it registers a record that is a member
\* already, or that another thread is registering.
RegisterCallDup(c) ==
  /\ CanCall(c)
  /\ \E cb \in Rec :
       /\ RegisteredOrInFlight(c, cb)
       /\ arg' = [arg EXCEPT ![c] = cb]
  /\ pc' = [pc EXCEPT ![c] = "reg_lock"]
  /\ UNCHANGED << cfg, openthread_instance, mutexVars, workVars, listVars, eng,
                  err, removed, ret, trace, handlerVars, initialized, init_count >>

\* ---------------------------- openthread_state_change_callback_unregister
\* CHECKIF(cb == NULL) return -EINVAL;
UnregisterCall(c) ==
  /\ CanCall(c)
  /\ \E cb \in Rec \cup {NULL} :
       /\ arg' = [arg EXCEPT ![c] = cb]
       /\ IF cb = NULL
          THEN /\ ret' = [ret EXCEPT ![c] = -EINVAL]
               /\ pc' = [pc EXCEPT ![c] = "unreg_done"]
          ELSE /\ pc' = [pc EXCEPT ![c] = "unreg_lock"]
               /\ UNCHANGED ret
  /\ UNCHANGED << cfg, openthread_instance, mutexVars, workVars, listVars, eng,
                  err, removed, trace, handlerVars, initialized, init_count >>

UnregisterLock(c) ==
  /\ pc[c] = "unreg_lock"
  /\ k_mutex_lock_grant(c)
  /\ lock_owner' = c
  /\ pc' = [pc EXCEPT ![c] = "unreg_remove"]
  /\ UNCHANGED << cfg, openthread_instance, workVars, listVars, eng,
                  threadLocals, handlerVars, initialized, init_count >>

\* removed = sys_slist_find_and_remove(&openthread_state_change_cbs, &cb->node);
UnregisterRemove(c) ==
  /\ pc[c] = "unreg_remove"
  /\ slist_find_terminates(arg[c])
  /\ LET i == slist_find(arg[c])
     IN  IF i = 0
         THEN /\ removed' = [removed EXCEPT ![c] = FALSE]
              /\ UNCHANGED << slist_head, slist_tail, node_next >>
         ELSE /\ removed' = [removed EXCEPT ![c] = TRUE]
              /\ slist_head' = slist_remove_head(i)
              /\ slist_tail' = slist_remove_tail(i)
              /\ node_next' = slist_remove_next(i)
  /\ members' = SeqWithout(members, arg[c])
  /\ pc' = [pc EXCEPT ![c] = "unreg_unlock"]
  /\ UNCHANGED << cfg, openthread_instance, mutexVars, workVars, dup_seen, eng,
                  arg, err, ret, trace, handlerVars, initialized, init_count >>

\* mutant: the result of the removal is ignored
unregister_ret_always_ok(rem) == 0

\* if (!removed) return -EALREADY; return 0;
unregister_ret(rem) == IF rem THEN 0 ELSE -EALREADY

\* openthread_mutex_unlock(); if (!removed) return -EALREADY; return 0;
UnregisterUnlock(c) ==
  /\ pc[c] = "unreg_unlock"
  /\ lock_owner' = IF lock_owner = c THEN NoOwner ELSE lock_owner
  /\ ret' = [ret EXCEPT ![c] = unregister_ret(removed[c])]
  /\ pc' = [pc EXCEPT ![c] = "unreg_done"]
  /\ UNCHANGED << cfg, openthread_instance, workVars, listVars, eng, arg, err,
                  removed, trace, handlerVars, initialized, init_count >>

\* --------------------------------------------------------- openthread_run
\* openthread_run starts with openthread_mutex_lock();
run_entry == "run_lock"

RunCall(c) ==
  /\ CanCall(c)
  /\ pc' = [pc EXCEPT ![c] = run_entry]
  /\ UNCHANGED << cfg, openthread_instance, mutexVars, workVars, listVars, eng,
                  threadLocals, handlerVars, initialized, init_count >>

RunLock(c) ==
  /\ pc[c] = "run_lock"
  /\ k_mutex_lock_grant(c)
  /\ lock_owner' = c
  /\ pc' = [pc EXCEPT ![c] = "run_commissioned"]
  /\ UNCHANGED << cfg, openthread_instance, workVars, listVars, eng,
                  threadLocals, handlerVars, initialized, init_count >>

\* mutant: the joiner autostart is tested before the stored dataset
run_branch_join_first(commissioned, autojoin) ==
  IF autojoin THEN "run_joiner"
  ELSE IF commissioned THEN "run_enable"
  ELSE "run_name"

\* branch taken after otDatasetIsCommissioned(openthread_instance)
run_branch(commissioned, autojoin) ==
  IF commissioned THEN "run_enable"
  ELSE IF autojoin THEN "run_joiner"
  ELSE "run_name"

\* if (otDatasetIsCommissioned(...)) ... else if (JOINER_AUTOSTART) ... else ...
RunCommissioned(c) ==
  /\ pc[c] = "run_commissioned"
  /\ trace' = [trace EXCEPT ![c] =
        Append(@, << "otDatasetIsCommissioned", IF eng.commissioned THEN 1 ELSE 0 >>)]
  /\ pc' = [pc EXCEPT ![c] = run_branch(eng.commissioned, cfg.autojoin)]
  /\ UNCHANGED << cfg, openthread_instance, mutexVars, workVars, listVars, eng,
                  arg, err, removed, ret, handlerVars, initialized, init_count >>

\* mutant: the goto exit after otJoinerStart is missing
run_joiner_falls_through == "run_enable"

\* after otJoinerStart, failed or not: goto exit
run_joiner_next == "run_exit"

\* error = otJoinerStart(...); goto exit;
RunJoinerStart(c) ==
  /\ pc[c] = "run_joiner"
  /\ \E e \in OtErrors :
       /\ err' = [err EXCEPT ![c] = e]
       /\ trace' = [trace EXCEPT ![c] = Append(@, << "otJoinerStart", e >>)]
       /\ eng' = [eng EXCEPT !.joining = (@ \/ e = OT_ERROR_NONE)]
  /\ pc' = [pc EXCEPT ![c] = run_joiner_next]
  /\ UNCHANGED << cfg, openthread_instance, mutexVars, workVars, listVars,
                  arg, removed, ret, handlerVars, initialized, init_count >>

\* the configuration setters of the default configuration, in program order
Setters ==
  << [at |-> "run_name",    op |-> "otThreadSetNetworkName"],
     [at |-> "run_channel", op |-> "otLinkSetChannel"],
     [at |-> "run_panid",   op |-> "otLinkSetPanId"],
     [at |-> "run_xpanid",  op |-> "otThreadSetExtendedPanId"],
     [at |-> "run_key",     op |-> "otThreadSetNetworkKey"] >>

SetterOps == { Setters[i].op : i \in 1..Len(Setters) }

\* mutant: the network key is set whatever OT_NETWORKKEY holds
setter_next_key_always(i, netkey) ==
  IF i < 5 THEN Setters[i + 1].at ELSE "run_enable"

\* pc after setter i succeeded; the network key is set only if (strlen(OT_NETWORKKEY))
setter_next(i, netkey) ==
  IF i < 4 THEN Setters[i + 1].at
  ELSE IF i = 4 /\ netkey THEN Setters[5].at
  ELSE "run_enable"

\* mutant: a failed setter returns at once, without the goto exit
setter_fail_returns == "run_done"

\* a failed setter: goto exit
setter_fail_next == "run_exit"

\* error = otXxxSet...(...); if (error != OT_ERROR_NONE) goto exit;
RunSetter(c) ==
  /\ \E i \in 1..Len(Setters) :
       /\ pc[c] = Setters[i].at
       /\ \E e \in OtErrors :
            /\ err' = [err EXCEPT ![c] = e]
            /\ trace' = [trace EXCEPT ![c] = Append(@, << Setters[i].op, e >>)]
            /\ pc' = [pc EXCEPT ![c] =
                 IF e # OT_ERROR_NONE THEN setter_fail_next
                 ELSE setter_next(i, cfg.netkey)]
  /\ UNCHANGED << cfg, openthread_instance, mutexVars, workVars, listVars, eng,
                  arg, removed, ret, handlerVars, initialized, init_count >>

\* error = otThreadSetEnabled(openthread_instance, true);
RunEnable(c) ==
  /\ pc[c] = "run_enable"
  /\ \E e \in OtErrors :
       /\ err' = [err EXCEPT ![c] = e]
       /\ trace' = [trace EXCEPT ![c] = Append(@, << "otThreadSetEnabled_true", e >>)]
  /\ pc' = [pc EXCEPT ![c] = "run_exit"]
  /\ UNCHANGED << cfg, openthread_instance, mutexVars, workVars, listVars, eng,
                  arg, removed, ret, handlerVars, initialized, init_count >>

\* mutant: openthread_run reports success whatever error holds
run_exit_ret_always_ok(error) == 0

\* return error == OT_ERROR_NONE ? 0 : -EIO;
run_exit_ret(error) == IF error = OT_ERROR_NONE THEN 0 ELSE -EIO

\* exit: openthread_mutex_unlock(); return error == OT_ERROR_NONE ? 0 : -EIO;
RunExit(c) ==
  /\ pc[c] = "run_exit"
  /\ lock_owner' = IF lock_owner = c THEN NoOwner ELSE lock_owner
  /\ ret' = [ret EXCEPT ![c] = run_exit_ret(err[c])]
  /\ pc' = [pc EXCEPT ![c] = "run_done"]
  /\ UNCHANGED << cfg, openthread_instance, workVars, listVars, eng, arg, err,
                  removed, trace, handlerVars, initialized, init_count >>

\* -------------------------------------------------------- openthread_stop
\* if (IS_ENABLED(CONFIG_OPENTHREAD_COPROCESSOR)) return 0;
StopCall(c) ==
  /\ CanCall(c)
  /\ IF cfg.coprocessor
     THEN /\ pc' = [pc EXCEPT ![c] = "stop_done"]
          /\ ret' = [ret EXCEPT ![c] = 0]
     ELSE /\ pc' = [pc EXCEPT ![c] = "stop_lock"]
          /\ UNCHANGED ret
  /\ UNCHANGED << cfg, openthread_instance, mutexVars, workVars, listVars, eng,
                  arg, err, removed, trace, handlerVars, initialized, init_count >>

StopLock(c) ==
  /\ pc[c] = "stop_lock"
  /\ k_mutex_lock_grant(c)
  /\ lock_owner' = c
  /\ pc' = [pc EXCEPT ![c] = "stop_disable"]
  /\ UNCHANGED << cfg, openthread_instance, workVars, listVars, eng,
                  threadLocals, handlerVars, initialized, init_count >>

\* error = otThreadSetEnabled(openthread_instance, false);
StopDisable(c) ==
  /\ pc[c] = "stop_disable"
  /\ \E e \in OtErrors :
       trace' = [trace EXCEPT ![c] = Append(@, << "otThreadSetEnabled_false", e >>)]
  /\ pc' = [pc EXCEPT ![c] = "stop_unlock"]
  /\ UNCHANGED << cfg, openthread_instance, mutexVars, workVars, listVars, eng,
                  arg, err, removed, ret, handlerVars, initialized, init_count >>

\* openthread_mutex_unlock(); return 0;
StopUnlock(c) ==
  /\ pc[c] = "stop_unlock"
  /\ lock_owner' = IF lock_owner = c THEN NoOwner ELSE lock_owner
  /\ ret' = [ret EXCEPT ![c] = 0]
  /\ pc' = [pc EXCEPT ![c] = "stop_done"]
  /\ UNCHANGED << cfg, openthread_instance, workVars, listVars, eng, arg, err,
                  removed, trace, handlerVars, initialized, init_count >>

\* ------------------------------- otTaskletsSignalPending / otSysEventSignalPending
\* The engine posts a tasklet and calls otTaskletsSignalPending, from whatever
\* context it runs in: k_work_submit_to_queue(&openthread_work_q, &openthread_work)
otTaskletsSignalPending ==
  /\ openthread_instance
  /\ sigs < MaxSignals
  /\ eng' = [eng EXCEPT !.tasklets = TRUE]
  /\ wq_pending' = k_work_submit_pending
  /\ work_queued' = k_work_submit_queued
  /\ sigs' = k_work_submit_sigs
  /\ UNCHANGED << cfg, openthread_instance, mutexVars, wq_started, work_running,
                  listVars, pc, threadLocals, handlerVars, initialized, init_count >>

\* A driver signals an event: otSysEventSignalPending() { otTaskletsSignalPending(NULL); }
otSysEventSignalPending ==
  /\ openthread_instance
  /\ sigs < MaxSignals
  /\ wq_pending' = k_work_submit_pending
  /\ work_queued' = k_work_submit_queued
  /\ sigs' = k_work_submit_sigs
  /\ UNCHANGED << cfg, openthread_instance, mutexVars, wq_started, work_running,
                  listVars, eng, pc, threadLocals, handlerVars, initialized, init_count >>

\* ---------------------------------------------- work queue thread, openthread_process
\* mutant: openthread_process without its openthread_mutex_lock()
process_entry_unlocked == "proc_pending"

\* openthread_process starts with openthread_mutex_lock();
process_entry == "proc_lock"

\* mutant: if instead of while: the drivers follow the first otTaskletsProcess
process_after_tasklets_once == "proc_drivers"

\* while (otTaskletsArePending(..)) { otTaskletsProcess(..); }: back to the test
process_after_tasklets == "proc_pending"

\* work_queue_main takes openthread_work from the pending list and calls its handler
WorkerTake ==
  /\ pc[Worker] = "idle"
  /\ wq_started
  /\ wq_pending > 0
  /\ wq_pending' = wq_pending - 1
  /\ work_queued' = FALSE
  /\ work_running' = TRUE
  /\ sigs' = 0
  /\ wtrace' = << >>
  /\ pc' = [pc EXCEPT ![Worker] = process_entry]
  /\ UNCHANGED << cfg, openthread_instance, mutexVars, wq_started, listVars, eng,
                  threadLocals, handlerLocals, initialized, init_count >>

\* openthread_mutex_lock();
ProcessLock ==
  /\ pc[Worker] = "proc_lock"
  /\ k_mutex_lock_grant(Worker)
  /\ lock_owner' = Worker
  /\ wtrace' = Append(wtrace, << "openthread_mutex_lock", 0 >>)
  /\ pc' = [pc EXCEPT ![Worker] = "proc_pending"]
  /\ UNCHANGED << cfg, openthread_instance, workVars, listVars, eng,
                  threadLocals, handlerLocals, initialized, init_count >>

\* while (otTaskletsArePending(openthread_instance))
ProcessArePending ==
  /\ pc[Worker] = "proc_pending"
  /\ wtrace' = Append(wtrace, << "otTaskletsArePending", IF eng.tasklets THEN 1 ELSE 0 >>)
  /\ pc' = [pc EXCEPT ![Worker] =
              IF eng.tasklets THEN "proc_tasklets" ELSE "proc_drivers"]
  /\ UNCHANGED << cfg, openthread_instance, mutexVars, workVars, listVars, eng,
                  threadLocals, handlerLocals, initialized, init_count >>

\* otTaskletsProcess(openthread_instance): the engine runs its tasklets
ProcessTasklets ==
  /\ pc[Worker] = "proc_tasklets"
  /\ eng' = [eng EXCEPT !.tasklets = FALSE]
  /\ wtrace' = Append(wtrace, << "otTaskletsProcess", 0 >>)
  /\ pc' = [pc EXCEPT ![Worker] = process_after_tasklets]
  /\ UNCHANGED << cfg, openthread_instance, mutexVars, workVars, listVars,
                  threadLocals, handlerLocals, initialized, init_count >>

\* otTaskletsProcess: a tasklet of the engine reports a state change through the
\* callback set with otSetStateChangedCallback: ot_state_changed_handler(flags, NULL)
ProcessTaskletsStateChanged ==
  /\ pc[Worker] = "proc_tasklets"
  /\ eng.sc_cb
  /\ \E f \in Flags : cur_flags' = f
  /\ eng' = [eng EXCEPT !.tasklets = FALSE]
  /\ notif_log' = << >>
  /\ wtrace' = Append(wtrace, << "otTaskletsProcess", 0 >>)
  /\ pc' = [pc EXCEPT ![Worker] = "sc_begin"]
  /\ UNCHANGED << cfg, openthread_instance, mutexVars, workVars, listVars,
                  threadLocals, htrace, jh_error, it_entry, it_next, cbVars,
                  initialized, init_count >>

\* otTaskletsProcess: the joiner of the engine completes and calls the callback
\* given to otJoinerStart: ot_joiner_start_handler(error, NULL)
ProcessTaskletsJoinerDone ==
  /\ pc[Worker] = "proc_tasklets"
  /\ eng.joining
  /\ \E e \in OtErrors :
       /\ jh_error' = e
       /\ eng' = [eng EXCEPT !.tasklets = FALSE, !.joining = FALSE,
                             !.commissioned = (@ \/ e = OT_ERROR_NONE)]
  /\ htrace' = << >>
  /\ wtrace' = Append(wtrace, << "otTaskletsProcess", 0 >>)
  /\ pc' = [pc EXCEPT ![Worker] = "jh_switch"]
  /\ UNCHANGED << cfg, openthread_instance, mutexVars, workVars, listVars,
                  threadLocals, it_entry, it_next, cur_flags, notif_log, cbVars,
                  initialized, init_count >>

\* otSysProcessDrivers(openthread_instance);
ProcessDrivers ==
  /\ pc[Worker] = "proc_drivers"
  /\ wtrace' = Append(wtrace, << "otSysProcessDrivers", 0 >>)
  /\ pc' = [pc EXCEPT ![Worker] = "proc_unlock"]
  /\ UNCHANGED << cfg, openthread_instance, mutexVars, workVars, listVars, eng,
                  threadLocals, handlerLocals, initialized, init_count >>

\* openthread_mutex_unlock();
ProcessUnlock ==
  /\ pc[Worker] = "proc_unlock"
  /\ wtrace' = Append(wtrace, << "openthread_mutex_unlock", 0 >>)
  /\ lock_owner' = IF lock_owner = Worker THEN NoOwner ELSE lock_owner
  /\ pc' = [pc EXCEPT ![Worker] = "proc_ret"]
  /\ UNCHANGED << cfg, openthread_instance, workVars, listVars, eng,
                  threadLocals, handlerLocals, initialized, init_count >>

\* the handler returns; work_queue_main clears K_WORK_RUNNING
WorkerDone ==
  /\ pc[Worker] = "proc_ret"
  /\ work_running' = FALSE
  /\ wtrace' = << >>
  /\ pc' = [pc EXCEPT ![Worker] = "idle"]
  /\ UNCHANGED << cfg, openthread_instance, mutexVars, wq_started, wq_pending,
                  work_queued, sigs, listVars, eng, threadLocals, handlerLocals,
                  initialized, init_count >>

\* ------------------------------------------------ ot_joiner_start_handler
\* mutant: the handler enables the network whatever the join result
joiner_handler_always_enables(error, e) == << << "otThreadSetEnabled_true", e >> >>

\* the engine calls of the handler for argument error, when an
\* otThreadSetEnabled(openthread_instance, true) it makes returns e
joiner_handler_calls(error, e) ==
  IF error = OT_ERROR_NONE THEN << << "otThreadSetEnabled_true", e >> >>
  ELSE << >>

\* switch (error) { case OT_ERROR_NONE: error = otThreadSetEnabled(.., true); ...
\*                  default: LOG_ERR("Join failed") }
JoinerHandler ==
  /\ pc[Worker] = "jh_switch"
  /\ \E e \in OtErrors : htrace' = joiner_handler_calls(jh_error, e)
  /\ pc' = [pc EXCEPT ![Worker] = "jh_done"]
  /\ UNCHANGED << cfg, openthread_instance, mutexVars, workVars, listVars, eng,
                  threadLocals, jh_error, it_entry, it_next, cur_flags,
                  notif_log, cbVars, wtrace, initialized, init_count >>

\* the handler returns into otTaskletsProcess, which returns to openthread_process
JoinerHandlerReturn ==
  /\ pc[Worker] = "jh_done"
  /\ htrace' = << >>
  /\ jh_error' = OT_ERROR_NONE
  /\ pc' = [pc EXCEPT ![Worker] = process_after_tasklets]
  /\ UNCHANGED << cfg, openthread_instance, mutexVars, workVars, listVars, eng,
                  threadLocals, it_entry, it_next, cur_flags, notif_log, cbVars, wtrace,
                  initialized, init_count >>

\* ----------------------------------------------- ot_state_changed_handler
\* mutant: the successor of a node is never found
slist_peek_next_none(n) == NULL

\* z_snode_next_peek of a possibly NULL node
slist_peek_next(n) == IF n = NULL THEN NULL ELSE node_next[n]

\* SYS_SLIST_FOR_EACH_CONTAINER_SAFE: entry = head, next = entry's successor
StateChangedBegin ==
  /\ pc[Worker] = "sc_begin"
  /\ it_entry' = slist_head
  /\ it_next' = slist_peek_next(slist_head)
  /\ pass_members' = members
  /\ pass_unreg' = << >>
  /\ pc' = [pc EXCEPT ![Worker] = "sc_iter"]
  /\ UNCHANGED << cfg, openthread_instance, mutexVars, workVars, listVars, eng,
                  threadLocals, htrace, jh_error, cur_flags, notif_log, cbu,
                  wtrace, initialized, init_count >>

\* most callbacks logged for one pass (a pass over a cyclic list does not end)
MaxLog == NumRec + 2

\* mutant: every callback gets the user data of the first record
notify_call_head_data(entry, flags) == << entry, user_data(slist_head), flags >>

\* the call entry->openthread_state_changed_cb(flags, openthread_instance, entry->user_data)
notify_call(entry, flags) == << entry, user_data(entry), flags >>

\* mutant: SYS_SLIST_FOR_EACH_CONTAINER, the successor is read from the entry
\* after the body
iter_advance_unsafe(entry, next) == slist_peek_next(entry)

\* SYS_SLIST_FOR_EACH_CONTAINER_SAFE: the entry of the next round is the
\* successor saved before the body
iter_advance(entry, next) == next

\* loop body: if (entry->openthread_state_changed_cb != NULL) call it; then
\* entry = next, next = next's successor
StateChangedIter ==
  /\ pc[Worker] = "sc_iter"
  /\ it_entry # NULL
  /\ notif_log' = IF cb_fn_set(it_entry) /\ Len(notif_log) < MaxLog
                  THEN Append(notif_log, notify_call(it_entry, cur_flags))
                  ELSE notif_log
  /\ it_entry' = iter_advance(it_entry, it_next)
  /\ it_next' = slist_peek_next(iter_advance(it_entry, it_next))
  /\ UNCHANGED << cfg, openthread_instance, mutexVars, workVars, listVars, eng,
                  pc, threadLocals, htrace, jh_error, cur_flags, cbVars, wtrace,
                  initialized, init_count >>

\* most calls of unregister made by the callbacks of one pass
MaxCbUnreg == 1

\* loop body, first half: if (entry->openthread_state_changed_cb != NULL) the
\* callback of entry is called and runs
StateChangedInvoke ==
  /\ pc[Worker] = "sc_iter"
  /\ it_entry # NULL
  /\ notif_log' = IF cb_fn_set(it_entry) /\ Len(notif_log) < MaxLog
                  THEN Append(notif_log, notify_call(it_entry, cur_flags))
                  ELSE notif_log
  /\ pc' = [pc EXCEPT ![Worker] = "sc_cb"]
  /\ UNCHANGED << cfg, openthread_instance, mutexVars, workVars, listVars, eng,
                  threadLocals, htrace, jh_error, it_entry, it_next, cur_flags,
                  cbVars, wtrace, initialized, init_count >>

\* the running callback calls openthread_state_change_callback_unregister(cb)
\* with cb != NULL, which starts with openthread_mutex_lock()
CallbackUnregisterCall ==
  /\ pc[Worker] = "sc_cb"
  /\ Len(pass_unreg) < MaxCbUnreg
  /\ \E cb \in Rec : cbu' = [cb |-> cb, removed |-> FALSE]
  /\ pc' = [pc EXCEPT ![Worker] = "cbu_lock"]
  /\ UNCHANGED << cfg, openthread_instance, mutexVars, workVars, listVars, eng,
                  threadLocals, htrace, jh_error, it_entry, it_next, cur_flags,
                  notif_log, pass_members, pass_unreg, wtrace, initialized,
                  init_count >>

\* k_mutex_lock(&openthread_lock, K_FOREVER) returns in the callback: the
\* work queue thread, which owns the lock in openthread_process, locks again
CallbackUnregisterLock ==
  /\ pc[Worker] = "cbu_lock"
  /\ k_mutex_lock_grant(Worker)
  /\ lock_owner' = Worker
  /\ pc' = [pc EXCEPT ![Worker] = "cbu_remove"]
  /\ UNCHANGED << cfg, openthread_instance, workVars, listVars, eng,
                  threadLocals, handlerVars, initialized, init_count >>

\* removed = sys_slist_find_and_remove(&openthread_state_change_cbs, &cb->node);
CallbackUnregisterRemove ==
  /\ pc[Worker] = "cbu_remove"
  /\ slist_find_terminates(cbu.cb)
  /\ LET i == slist_find(cbu.cb)
     IN  IF i = 0
         THEN /\ cbu' = [cbu EXCEPT !.removed = FALSE]
              /\ UNCHANGED << slist_head, slist_tail, node_next >>
         ELSE /\ cbu' = [cbu EXCEPT !.removed = TRUE]
              /\ slist_head' = slist_remove_head(i)
              /\ slist_tail' = slist_remove_tail(i)
              /\ node_next' = slist_remove_next(i)
  /\ members' = SeqWithout(members, cbu.cb)
  /\ pc' = [pc EXCEPT ![Worker] = "cbu_unlock"]
  /\ UNCHANGED << cfg, openthread_instance, mutexVars, workVars, dup_seen, eng,
                  threadLocals, htrace, jh_error, it_entry, it_next, cur_flags,
                  notif_log, pass_members, pass_unreg, wtrace, initialized,
                  init_count >>

\* openthread_mutex_unlock() in the callback undoes the second lock only (the
\* thread still owns the lock for openthread_process); unregister returns to
\* the callback, which goes on
CallbackUnregisterUnlock ==
  /\ pc[Worker] = "cbu_unlock"
  /\ pass_unreg' = Append(pass_unreg,
                          [cb |-> cbu.cb, ret |-> unregister_ret(cbu.removed),
                           entry |-> it_entry, next |-> it_next])
  /\ cbu' = [cb |-> NULL, removed |-> FALSE]
  /\ pc' = [pc EXCEPT ![Worker] = "sc_cb"]
  /\ UNCHANGED << cfg, openthread_instance, mutexVars, workVars, listVars, eng,
                  threadLocals, htrace, jh_error, it_entry, it_next, cur_flags,
                  notif_log, pass_members, wtrace, initialized, init_count >>

\* loop body, second half: the callback returns; entry = next, next = next's
\* successor
StateChangedAdvance ==
  /\ pc[Worker] = "sc_cb"
  /\ it_entry' = iter_advance(it_entry, it_next)
  /\ it_next' = slist_peek_next(iter_advance(it_entry, it_next))
  /\ pc' = [pc EXCEPT ![Worker] = "sc_iter"]
  /\ UNCHANGED << cfg, openthread_instance, mutexVars, workVars, listVars, eng,
                  threadLocals, htrace, jh_error, cur_flags, notif_log, cbVars,
                  wtrace, initialized, init_count >>

\* loop condition fails: entry == NULL
StateChangedEnd ==
  /\ pc[Worker] = "sc_iter"
  /\ it_entry = NULL
  /\ pc' = [pc EXCEPT ![Worker] = "sc_done"]
  /\ UNCHANGED << cfg, openthread_instance, mutexVars, workVars, listVars, eng,
                  threadLocals, handlerVars, initialized, init_count >>

\* the handler returns into otTaskletsProcess, which returns to openthread_process
StateChangedReturn ==
  /\ pc[Worker] = "sc_done"
  /\ it_next' = NULL
  /\ cur_flags' = 0
  /\ notif_log' = << >>
  /\ pass_members' = << >>
  /\ pass_unreg' = << >>
  /\ pc' = [pc EXCEPT ![Worker] = process_after_tasklets]
  /\ UNCHANGED << cfg, openthread_instance, mutexVars, workVars, listVars, eng,
                  threadLocals, htrace, jh_error, it_entry, cbu, wtrace,
                  initialized, init_count >>

\* ------------------------------------------------ groups of actions
InitOps(c) ==
  \/ InitCall(c) \/ InitGuard(c) \/ InitKernelObjects(c) \/ InitLock(c)
  \/ InitInstance(c) \/ InitSlist(c) \/ InitUnlock(c)
  \/ InitQueueStart(c) \/ InitSubmit(c)

LockOps(c) ==
  \/ MutexLockCall(c) \/ MutexLock(c) \/ MutexTryLock(c) \/ MutexUnlock(c)

RegistryOps(c) ==
  \/ RegisterCall(c) \/ RegisterLock(c) \/ RegisterAppend(c) \/ RegisterUnlock(c)
  \/ UnregisterCall(c) \/ UnregisterLock(c) \/ UnregisterRemove(c)
  \/ UnregisterUnlock(c)

RunOps(c) ==
  \/ RunCall(c) \/ RunLock(c) \/ RunCommissioned(c) \/ RunJoinerStart(c)
  \/ RunSetter(c) \/ RunEnable(c) \/ RunExit(c)

StopOps(c) ==
  \/ StopCall(c) \/ StopLock(c) \/ StopDisable(c) \/ StopUnlock(c)

\* the work queue thread running openthread_process
WorkerPass ==
  \/ WorkerTake \/ ProcessLock \/ ProcessArePending \/ ProcessTasklets
  \/ ProcessDrivers \/ ProcessUnlock \/ WorkerDone

\* ot_joiner_start_handler called by the engine
WorkerJoiner ==
  \/ ProcessTaskletsJoinerDone \/ JoinerHandler \/ JoinerHandlerReturn

\* ot_state_changed_handler called by the engine, over an empty list
WorkerStateChanged ==
  \/ ProcessTaskletsStateChanged \/ StateChangedBegin \/ StateChangedEnd
  \/ StateChangedReturn

Signals == otTaskletsSignalPending \/ otSysEventSignalPending

\* ------------------------------------------------------------------ Next
\* the whole module: every API call from every application thread
Next ==
  \/ \E c \in Threads :
       \/ InitOps(c) \/ InitNat64(c) \/ LockOps(c) \/ RegistryOps(c)
       \/ RunOps(c) \/ StopOps(c) \/ Return(c)
  \/ WorkerPass \/ WorkerJoiner \/ WorkerStateChanged \/ StateChangedIter
  \/ Signals

Spec == Init /\ [][Next]_vars

\* Applications that call openthread_init, the mutex API, openthread_run and
\* openthread_stop (no callback is registered, so a notification pass finds
\* the list empty).
NextGate ==
  \/ \E c \in Threads :
       \/ InitOps(c) \/ InitNat64(c) \/ LockOps(c) \/ RunOps(c) \/ StopOps(c)
       \/ Return(c)
  \/ WorkerPass \/ WorkerJoiner \/ WorkerStateChanged
  \/ Signals

SpecGate == Init /\ [][NextGate]_vars

\* The default build (no NAT64, no coprocessor, no joiner autostart) on a
\* device that is not commissioned.
InitDefault ==
  /\ Init
  /\ cfg = DefaultConfig
  /\ ~eng.commissioned

\* Applications that call openthread_init and the mutex API only.
NextWork ==
  \/ \E c \in Threads : InitOps(c) \/ LockOps(c) \/ Return(c)
  \/ WorkerPass \/ WorkerStateChanged
  \/ Signals

SpecWork == InitDefault /\ [][NextWork]_vars

\* steps of a thread that holds the lock towards its unlock
HolderStep ==
  \E c \in Threads :
    MutexUnlock(c) \/ InitInstance(c) \/ InitSlist(c) \/ InitUnlock(c)

\* Scheduling: the work queue thread runs when it can (it is a thread of its
\* own); k_mutex_unlock hands the lock to a waiter, so the worker waiting in
\* openthread_mutex_lock gets the lock when it is released again and again;
\* a holder of the lock goes on to release it.
SpecWorkFair ==
  /\ SpecWork
  /\ WF_vars(WorkerPass \/ WorkerStateChanged)
  /\ SF_vars(ProcessLock)
  /\ WF_vars(HolderStep)

\* Applications that call openthread_init and register / unregister callbacks.
NextRegistry ==
  \/ \E c \in Threads : InitOps(c) \/ RegistryOps(c) \/ Return(c)
  \/ WorkerPass \/ WorkerStateChanged \/ StateChangedIter
  \/ Signals

SpecRegistry == InitDefault /\ [][NextRegistry]_vars

\* Callbacks that unregister records while they run. One application thread
\* calls openthread_init and registers records; the kernel's mutex is either
\* of the two kinds.
InitCallback ==
  /\ \E b \in BOOLEAN : cfg = [DefaultConfig EXCEPT !.mutex_recursive = b]
  /\ InitStatics
  /\ ~eng.commissioned

CallbackThread == 1

WorkerCallback ==
  \/ StateChangedInvoke \/ CallbackUnregisterCall \/ CallbackUnregisterLock
  \/ CallbackUnregisterRemove \/ CallbackUnregisterUnlock
  \/ StateChangedAdvance

NextCallback ==
  \/ InitOps(CallbackThread) \/ RegistryOps(CallbackThread)
  \/ Return(CallbackThread)
  \/ WorkerPass \/ WorkerStateChanged \/ WorkerCallback
  \/ Signals

SpecCallback == InitCallback /\ [][NextCallback]_vars

\* The registry alone (the worker only reads the list): applications that
\* call openthread_init, register and unregister, and that may register a
\* record again while it is registered.
NextRegistryDup ==
  \E c \in Threads :
    InitOps(c) \/ RegistryOps(c) \/ RegisterCallDup(c) \/ Return(c)

SpecRegistryDup == InitDefault /\ [][NextRegistryDup]_vars

\* Threads that call openthread_init at any time, also while another thread
\* is inside it, and the mutex API once a call has returned true.
NextInitRace ==
  \E c \in Threads :
       \/ InitCallConcurrent(c) \/ InitGuard(c) \/ InitKernelObjects(c)
       \/ InitLock(c) \/ InitInstance(c) \/ InitNat64(c) \/ InitSlist(c)
       \/ InitUnlock(c) \/ InitQueueStart(c) \/ InitSubmit(c)
       \/ LockOps(c) \/ Return(c)

SpecInitRace == Init /\ [][NextInitRace]_vars

\* ================================================================ claims
\* positions at which a context is about to call an engine operation
EngineCallPcs ==
  {"init_instance", "init_nat64", "init_slist", "run_commissioned",
   "run_joiner", "run_enable", "stop_disable", "proc_pending", "proc_tasklets",
   "proc_drivers", "jh_switch", "sc_begin"}
  \cup { Setters[i].at : i \in 1..Len(Setters) }

\* positions between the return of openthread_mutex_lock and the call of
\* openthread_mutex_unlock
CriticalPcs ==
  EngineCallPcs \cup
  {"init_unlock", "held", "reg_append", "reg_unlock", "unreg_remove",
   "unreg_unlock", "run_exit", "stop_unlock", "proc_unlock", "jh_done",
   "sc_iter", "sc_done"}

\* positions inside openthread_mutex_lock
LockWaitPcs ==
  {"init_lock", "user_lock", "reg_lock", "unreg_lock", "run_lock", "stop_lock",
   "proc_lock"}

InCritical(c) == pc[c] \in CriticalPcs

\* the names of the engine operations of a trace
TraceOps(t) == [i \in 1..Len(t) |-> t[i][1]]

\* C1: whenever a context is about to execute an engine operation
\* (otTaskletsArePending / otTaskletsProcess / otSysProcessDrivers in the
\* worker, the setters, otJoinerStart and otThreadSetEnabled in openthread_run,
\* otThreadSetEnabled in openthread_stop and in the join handler, the engine
\* set-up in openthread_init), that context owns openthread_lock.
C1_EngineCallsHoldGate ==
  \A c \in Ctx : pc[c] \in EngineCallPcs => lock_owner = c

\* C1 witness: the join handler runs in the worker while a thread that called
\* openthread_run waits for the lock
C1_Witness ==
  /\ pc[Worker] = "jh_switch"
  /\ \E c \in Threads : pc[c] = "run_lock"

\* C2, state part: at most one context is between lock and unlock
C2_AtMostOneHolder == Cardinality({ c \in Ctx : InCritical(c) }) <= 1

\* C2, step part: openthread_mutex_lock returns only when no other context is
\* between lock and unlock; openthread_mutex_try_lock returns at once, with a
\* negative value and without taking the lock when the lock is held, with 0
\* and holding the lock when it is free
C2_LockSteps ==
  \A c \in Ctx :
    /\ (pc[c] \in LockWaitPcs /\ pc'[c] # pc[c])
         => /\ \A d \in Ctx \ {c} : ~InCritical(d)
            /\ pc'[c] \in CriticalPcs
            /\ lock_owner' = c
    /\ (c \in Threads /\ pc[c] = "idle" /\ pc'[c] \in {"try_done", "held"})
         => /\ (\E d \in Ctx \ {c} : InCritical(d))
                 => /\ pc'[c] = "try_done"
                    /\ ret'[c] < 0
                    /\ lock_owner' = lock_owner
            /\ lock_owner = NoOwner
                 => /\ pc'[c] = "held"
                    /\ ret'[c] = 0
                    /\ lock_owner' = c

\* C2: the Gate is exclusive; lock waits for the holder; try_lock does not wait
C2_GateExclusive == [] C2_AtMostOneHolder /\ [][C2_LockSteps]_vars

\* C2 witness: one thread holds the lock, the try_lock of the other returned
\* -EBUSY, and the worker waits in openthread_mutex_lock
C2_Witness ==
  \E c, d \in Threads :
    /\ pc[c] = "held"
    /\ pc[d] = "try_done" /\ ret[d] = -EBUSY
    /\ pc[Worker] = "proc_lock"

\* C3, state part: once the queue is started, the pending list holds exactly
\* one entry when one or more signals came since the worker last took the
\* work item, and none otherwise
C3_OneEntryPerBatch ==
  wq_started => wq_pending = (IF sigs >= 1 THEN 1 ELSE 0)

\* C3, step part: an activation of openthread_process starts only for a
\* batch of N >= 1 signals and consumes the whole batch
C3_TakeConsumesBatch ==
  (pc[Worker] = "idle" /\ pc'[Worker] # "idle")
    => sigs >= 1 /\ wq_pending' = 0 /\ sigs' = 0

\* C3: N >= 1 signals before the worker next runs cause one activation
C3_Coalescing == [] C3_OneEntryPerBatch /\ [][C3_TakeConsumesBatch]_vars

\* C3 witness: several signals are waiting for an idle worker as one entry
C3_Witness == sigs >= 2 /\ wq_pending = 1 /\ pc[Worker] = "idle"

\* C4, state part: while an activation of openthread_process executes, one
\* or more signals leave exactly one entry in the pending list
C4_SignalDuringPassQueued ==
  (work_running /\ sigs >= 1) => (wq_pending = 1 /\ work_queued)

\* C4, step part: the end of the executing activation keeps that entry
C4_PassEndKeepsEntry ==
  (work_running /\ ~work_running') => wq_pending' = wq_pending

\* C4: a signal during an activation is not lost: exactly one entry is queued,
\* it survives the end of the activation, a new activation is then started,
\* and an activation waiting for the lock gets to run
C4_NoLostWakeup ==
  /\ [] C4_SignalDuringPassQueued
  /\ [][C4_PassEndKeepsEntry]_vars
  /\ (work_running /\ sigs >= 1) ~> (pc[Worker] = "proc_lock" /\ sigs = 0)
  /\ (pc[Worker] = "proc_lock") ~> (pc[Worker] = "proc_pending")

\* C4 witness: signals arrived after the last otTaskletsArePending check of
\* the executing activation
C4_Witness ==
  /\ work_running
  /\ pc[Worker] = "proc_unlock"
  /\ sigs >= 2
  /\ wq_pending = 1

\* C5: openthread_state_change_callback_register(NULL), or of a record whose
\* notify function is NULL, returns -EINVAL at once: the list (head, tail and
\* links) and the owner of the lock are unchanged
C5_InvalidStep ==
  \A c \in Threads :
    (pc[c] = "idle" /\ pc'[c] \in {"reg_lock", "reg_done"}
       /\ (arg'[c] = NULL \/ arg'[c] = NoFnRec))
      => /\ pc'[c] = "reg_done"
         /\ ret'[c] = -EINVAL
         /\ UNCHANGED << slist_head, slist_tail, node_next, lock_owner >>

C5_RegisterInvalid == [][C5_InvalidStep]_vars

\* C5 witness: a register call of a record without notify function returned
\* -EINVAL while another thread was inside register holding the lock
C5_Witness ==
  \E c, d \in Threads :
    /\ pc[c] = "reg_done" /\ ret[c] = -EINVAL /\ arg[c] = NoFnRec
    /\ pc[d] = "reg_append"
    /\ members # << >>

\* C6, removal step: for a record that is not a member the list is unchanged
\* and removed is false; for a member, removed is true and the list is the
\* old list without that record, the others in their order
C6_RemoveStep ==
  \A c \in Threads :
    (pc[c] = "unreg_remove" /\ pc'[c] = "unreg_unlock")
      => IF arg[c] \in SeqSet(members)
         THEN /\ removed'[c]
              /\ ListSeq' = SeqWithout(ListSeq, arg[c])
              /\ Len(ListSeq') = Len(ListSeq) - 1
         ELSE /\ ~removed'[c]
              /\ ListSeq' = ListSeq

\* C6, return value: 0 for a removed member, -EALREADY otherwise
C6_Return ==
  \A c \in Threads :
    (pc[c] = "unreg_done" /\ arg[c] # NULL)
      => ret[c] = (IF removed[c] THEN 0 ELSE -EALREADY)

\* C6, notification: a pass invokes only records that are members, so never
\* one whose unregistration has returned 0
C6_NotifiedAreMembers ==
  \A i \in 1..Len(notif_log) : notif_log[i][1] \in SeqSet(members)

\* C6: unregister of a non-member returns -EALREADY and changes nothing;
\* unregister of a member returns 0 and removes exactly it; later passes do
\* not invoke it
C6_Unregister ==
  /\ [] (C6_Return /\ C6_NotifiedAreMembers)
  /\ [][C6_RemoveStep]_vars

\* C6 witness: after an unregistration returned 0, a pass has notified the
\* one remaining member and not the removed record
C6_Witness ==
  \E c \in Threads :
    /\ pc[c] = "unreg_done" /\ ret[c] = 0
    /\ pc[Worker] = "sc_done"
    /\ Len(notif_log) = 1 /\ notif_log[1][1] # arg[c]

\* C7: a finished notification pass has invoked every member exactly once,
\* in registration order, each with its own user_data and with the flags of
\* the notification
C7_NotifyInOrder ==
  pc[Worker] = "sc_done"
    => notif_log = [i \in 1..Len(members) |->
                      << members[i], 100 + members[i], cur_flags >>]

\* C7 witness: a pass over two members registered in the order 2, 1
C7_Witness ==
  /\ pc[Worker] = "sc_done"
  /\ members = << 2, 1 >>
  /\ Len(notif_log) = 2

\* the list ends, holds no node twice, and its tail is its last node
ListWellFormed ==
  LET s == ListSeq
  IN  /\ Len(s) <= NumRec
      /\ \A i, j \in 1..Len(s) : i # j => s[i] # s[j]
      /\ slist_tail = (IF s = << >> THEN NULL ELSE s[Len(s)])

\* C8 as claimed: after any register / unregister calls, also of a record
\* that is a member already, the list is well formed, holds every record at
\* most once and holds exactly the members
C8_AlwaysWellFormed == ListWellFormed /\ ListSeq = members

\* C8 amended: ... as long as no record was registered while it was a member
C8_WellFormedIfUnique == ~dup_seen => (ListWellFormed /\ ListSeq = members)

\* C8 witness: two members after registrations and an unregistration by
\* callers that kept the records unique
C8_Witness ==
  /\ ~dup_seen
  /\ ListSeq = << 2, 1 >>
  /\ \E c \in Threads : pc[c] = "unreg_done" /\ ret[c] = 0

\* C9: a call of openthread_run that found the dataset commissioned made,
\* after otDatasetIsCommissioned, exactly one engine call:
\* otThreadSetEnabled(true); no setter and no otJoinerStart
C9_CommissionedSkipsConfig ==
  \A c \in Threads :
    (pc[c] = "run_done" /\ Len(trace[c]) >= 1
       /\ trace[c][1] = << "otDatasetIsCommissioned", 1 >>)
      => TraceOps(trace[c]) = << "otDatasetIsCommissioned", "otThreadSetEnabled_true" >>

\* C9 witness: such a call has returned in a build with joiner autostart
C9_Witness ==
  \E c \in Threads :
    /\ pc[c] = "run_done" /\ cfg.autojoin
    /\ Len(trace[c]) = 2 /\ trace[c][1][2] = 1

\* C10: with joiner autostart and no dataset, openthread_run calls
\* otJoinerStart once and nothing else; the join handler calls
\* otThreadSetEnabled(true) once after a successful join and makes no engine
\* call (so starts no join) after a failed one
C10_AutoJoin ==
  /\ \A c \in Threads :
       (pc[c] = "run_done" /\ cfg.autojoin /\ Len(trace[c]) >= 1
          /\ trace[c][1] = << "otDatasetIsCommissioned", 0 >>)
         => TraceOps(trace[c]) = << "otDatasetIsCommissioned", "otJoinerStart" >>
  /\ pc[Worker] = "jh_done"
       => /\ TraceOps(htrace) =
               (IF jh_error = OT_ERROR_NONE THEN << "otThreadSetEnabled_true" >>
                ELSE << >>)
          /\ ~eng.joining

\* C10 witness: the handler has enabled the network after a successful join
C10_Witness ==
  /\ pc[Worker] = "jh_done"
  /\ jh_error = OT_ERROR_NONE
  /\ Len(htrace) = 1

\* the setters openthread_run attempts in the default configuration
ExpectedSetters ==
  IF cfg.netkey THEN [i \in 1..5 |-> Setters[i].op]
  ELSE [i \in 1..4 |-> Setters[i].op]

\* number of setter calls in trace t
SetterCalls(t) == Cardinality({ i \in 1..Len(t) : t[i][1] \in SetterOps })

\* number of otThreadSetEnabled(true) calls in trace t
EnableCalls(t) ==
  Cardinality({ i \in 1..Len(t) : t[i][1] = "otThreadSetEnabled_true" })

\* C11: in the default configuration (no dataset, no joiner autostart) a
\* finished openthread_run has attempted the setters in the order name,
\* channel, PAN ID, extended PAN ID and, only with a non-empty key string,
\* network key; every setter before the last attempted one succeeded; after
\* a failed setter nothing more is called and the result is non-zero;
\* otThreadSetEnabled(true) is called only after all of them succeeded
C11_SetterOrder ==
  \A c \in Threads :
    (pc[c] = "run_done" /\ ~cfg.autojoin /\ Len(trace[c]) >= 1
       /\ trace[c][1] = << "otDatasetIsCommissioned", 0 >>)
      => LET t == Tail(trace[c])
             k == SetterCalls(t)
         IN  /\ k >= 1 /\ k <= Len(ExpectedSetters)
             /\ \A i \in 1..k : t[i][1] = ExpectedSetters[i]
             /\ \A i \in 1..(k - 1) : t[i][2] = OT_ERROR_NONE
             /\ IF t[k][2] # OT_ERROR_NONE
                THEN Len(t) = k /\ ret[c] # 0
                ELSE /\ k = Len(ExpectedSetters)
                     /\ Len(t) = k + 1
                     /\ t[k + 1][1] = "otThreadSetEnabled_true"

\* C11 witness: otLinkSetPanId failed; the run stopped there with -EIO
C11_Witness ==
  \E c \in Threads :
    /\ pc[c] = "run_done" /\ ret[c] = -EIO
    /\ TraceOps(trace[c]) = << "otDatasetIsCommissioned", "otThreadSetNetworkName",
                               "otLinkSetChannel", "otLinkSetPanId" >>

\* C12: a finished openthread_run that called otJoinerStart returns non-zero
\* without having called otThreadSetEnabled when otJoinerStart failed, and
\* returns 0 when it succeeded
C12_JoinerStartResult ==
  \A c \in Threads :
    pc[c] = "run_done"
      => \A i \in 1..Len(trace[c]) :
           trace[c][i][1] = "otJoinerStart"
             => IF trace[c][i][2] # OT_ERROR_NONE
                THEN ret[c] # 0 /\ EnableCalls(trace[c]) = 0
                ELSE ret[c] = 0

\* C12 witness: otJoinerStart failed and openthread_run returned -EIO
C12_Witness ==
  \E c \in Threads :
    /\ pc[c] = "run_done" /\ ret[c] = -EIO
    /\ trace[c] = << << "otDatasetIsCommissioned", 0 >>,
                     << "otJoinerStart", OT_ERROR_FAILED >> >>

\* positions of openthread_run at or between its first and last engine call
RunEnginePcs ==
  {"run_commissioned", "run_joiner", "run_enable", "run_exit"}
  \cup { Setters[i].at : i \in 1..Len(Setters) }

\* C13, state part: the caller of openthread_run owns the lock at every
\* engine call of the run and does not own it when the run has returned,
\* whatever the exit path
C13_RunHoldsThenReleases ==
  \A c \in Threads :
    /\ pc[c] \in RunEnginePcs => lock_owner = c
    /\ pc[c] = "run_done" => lock_owner # c

\* C13, step part: a run that gets past its openthread_mutex_lock did not own
\* the lock before, so a run that returns leaves the caller's number of
\* acquisitions as it was
C13_RunAcquiresFree ==
  \A c \in Threads :
    (pc[c] = "run_lock" /\ pc'[c] # "run_lock") => lock_owner # c

\* C13: openthread_run holds the lock from its first engine call to its last
\* and has released it when it returns, on every exit path
C13_RunGateBalanced == [] C13_RunHoldsThenReleases /\ [][C13_RunAcquiresFree]_vars

\* C13 witness: a run that failed at the network key has returned with the
\* lock free
C13_Witness ==
  \E c \in Threads :
    /\ pc[c] = "run_done" /\ lock_owner = NoOwner /\ ret[c] = -EIO
    /\ Len(trace[c]) = 6
    /\ trace[c][6] = << "otThreadSetNetworkKey", OT_ERROR_FAILED >>

\* the configuration step of a finished run succeeded and
\* otThreadSetEnabled(true) then failed
EnableFailed(c) ==
  /\ pc[c] = "run_done"
  /\ Len(trace[c]) >= 2
  /\ trace[c][Len(trace[c])] = << "otThreadSetEnabled_true", OT_ERROR_FAILED >>

\* C14 as claimed: in that case openthread_run makes no further engine call
\* (no revert, no retry) and does not return a failure status
C14_EnableFailureNotReturned ==
  \A c \in Threads :
    EnableFailed(c) => EnableCalls(trace[c]) = 1 /\ ret[c] = 0

\* C14, amended: in that case openthread_run makes no further engine call
\* (no revert, no retry) and returns the failure status -EIO
C14_EnableFailureReturned ==
  \A c \in Threads :
    EnableFailed(c) => EnableCalls(trace[c]) = 1 /\ ret[c] = -EIO

\* C14 witness: all five setters succeeded and the enable call failed
C14_Witness ==
  \E c \in Threads :
    /\ EnableFailed(c)
    /\ Len(trace[c]) = 7
    /\ \A i \in 1..6 : trace[c][i][2] = OT_ERROR_NONE

\* C15, step part: an openthread_init call made after a call has returned
\* true returns true at the guard and leaves the engine instance, the lock,
\* the work queue and the callback list with its members as they are
C15_SecondInitStep ==
  \A c \in Threads :
    (pc[c] = "init_guard" /\ initialized /\ pc'[c] # "init_guard")
      => /\ pc'[c] = "init_done" /\ ret'[c] = 1
         /\ UNCHANGED << openthread_instance, lock_owner, workVars, listVars,
                         init_count >>

\* C15, step part: once a call has returned true, otInstanceInitSingle,
\* k_mutex_init, sys_slist_init and k_work_queue_start are not called again
C15_NoReinit == initialized => init_count' = init_count

\* C15: openthread_init called again after it returned true returns true and
\* creates no second instance, starts no second queue, re-initializes
\* neither the lock nor the callback list and keeps the registered callbacks
C15_IdempotentInit == [][C15_SecondInitStep /\ C15_NoReinit]_vars

\* C15 witness: with callbacks registered, a second call has returned true
\* without having called otInstanceInitSingle
C15_Witness ==
  \E c \in Threads :
    /\ pc[c] = "init_done" /\ ret[c] = 1 /\ trace[c] = << >>
    /\ init_count = [instance |-> 1, mutex |-> 1, slist |-> 1, queue |-> 1]
    /\ Len(members) = NumRec

\* C17 as claimed: otInstanceInitSingle is called at most once, the lock is
\* initialized at most once and the work queue is started at most once,
\* also when openthread_init calls overlap
C17_SingleInit ==
  /\ init_count.instance <= 1
  /\ init_count.mutex <= 1
  /\ init_count.queue <= 1

\* the calls of one run of openthread_process, with n rounds of the loop
ProcessCalls(n) ==
  << << "openthread_mutex_lock", 0 >> >>
  \o [i \in 1..(2 * n) |-> IF i % 2 = 1 THEN << "otTaskletsArePending", 1 >>
                           ELSE << "otTaskletsProcess", 0 >>]
  \o << << "otTaskletsArePending", 0 >>, << "otSysProcessDrivers", 0 >>,
        << "openthread_mutex_unlock", 0 >> >>

\* C18, state part: a finished run of openthread_process has locked, then
\* alternated otTaskletsArePending and otTaskletsProcess until
\* otTaskletsArePending returned false, then called otSysProcessDrivers once,
\* right after that negative answer, then unlocked; it holds the lock in
\* between and not afterwards
C18_PassOrder ==
  /\ pc[Worker] = "proc_ret"
       => /\ Len(wtrace) >= 4 /\ Len(wtrace) % 2 = 0
          /\ wtrace = ProcessCalls((Len(wtrace) - 4) \div 2)
          /\ lock_owner # Worker
  /\ pc[Worker] \in {"proc_pending", "proc_tasklets", "proc_drivers",
                     "proc_unlock"} => lock_owner = Worker

\* C18, liveness part: a run that has the lock ends, the engine reporting no
\* pending tasklets after finitely many rounds
C18_PassTerminates == (pc[Worker] = "proc_pending") ~> (pc[Worker] = "proc_ret")

\* C18: one run of openthread_process is lock, drain, drivers once, unlock,
\* and it terminates
C18_ProcessPass == [] C18_PassOrder /\ C18_PassTerminates

\* C18 witness: a run has ended after two rounds of the loop, the second one
\* for tasklets posted while the first was processed
C18_Witness ==
  /\ pc[Worker] = "proc_ret"
  /\ Len(wtrace) = 8

\* the records whose callback the running pass has called, in call order
NotifiedRecs == [i \in 1..Len(notif_log) |-> notif_log[i][1]]

\* number of calls of the callback of record r in the running pass
NotifiedCount(r) == Cardinality({ i \in 1..Len(notif_log) : notif_log[i][1] = r })

\* position of record r in the sequence s, 0 when absent
SeqPos(s, r) ==
  IF r \in SeqSet(s) THEN CHOOSE i \in 1..Len(s) : s[i] = r ELSE 0

\* the unregistrations by callbacks of the running pass that returned 0
PassRemovals == { i \in 1..Len(pass_unreg) : pass_unreg[i].ret = 0 }

\* C16, state part: on a kernel whose mutex is not re-entrant, no call of
\* unregister made by a callback gets past its openthread_mutex_lock, and the
\* thread waiting there is the owner of the lock
C16_NoNestedAcquire ==
  /\ pc[Worker] = "cbu_lock" => lock_owner = Worker
  /\ ~cfg.mutex_recursive
       => /\ pc[Worker] \notin {"cbu_remove", "cbu_unlock"}
          /\ pass_unreg = << >>

\* C16, step part: ... and once it waits there it waits in every later state,
\* still owning the lock
C16_RelockStays ==
  (~cfg.mutex_recursive /\ pc[Worker] = "cbu_lock")
    => (pc'[Worker] = "cbu_lock" /\ lock_owner' = Worker)

C19_CurrentRemovalTolerated ==
  /\ (/\ pc[Worker] = "sc_done"
      /\ \A i \in PassRemovals : pass_unreg[i].cb = pass_unreg[i].entry)
       => NotifiedRecs = pass_members
  /\ pc[Worker] \in {"sc_iter", "sc_cb", "sc_done"}
       => \A i \in 1..Len(notif_log) : notif_log[i][1] \in SeqSet(pass_members)

\* C19 witness: a pass over two members has ended in which the callback of
\* the first removed its own record, and the second was called after it
C19_Witness ==
  /\ pc[Worker] = "sc_done"
  /\ Len(pass_members) = 2
  /\ PassRemovals = {1}
  /\ pass_unreg[1].cb = pass_members[1]
  /\ pass_unreg[1].entry = pass_members[1]
  /\ NotifiedRecs = pass_members
  /\ members = << pass_members[2] >>

\* the loop of ot_state_changed_handler calls the callback of it_entry
InvokeStep == pc[Worker] = "sc_iter" /\ pc'[Worker] = "sc_cb"

RemovedAsSavedNext(e) ==
  \E i \in PassRemovals : pass_unreg[i].cb = e /\ pass_unreg[i].next = e

\* record m comes after a record that was removed as the saved successor
AfterRemovedSavedNext(m) ==
  \E i \in PassRemovals :
    /\ pass_unreg[i].cb = pass_unreg[i].next
    /\ SeqPos(pass_members, pass_unreg[i].cb) < SeqPos(pass_members, m)

\* C20 amended, step part: a callback is called for a current member or for
\* the record that a callback of this pass removed while it was the saved
\* successor
C20_InvokeMemberOrSavedNext ==
  InvokeStep => (it_entry \in SeqSet(members) \/ RemovedAsSavedNext(it_entry))

\* C20 amended, state part: at the end of a pass a record that was a member
\* throughout has been called once, or not at all when it comes after a
\* record removed as the saved successor
C20_MembersNotifiedUnlessCut ==
  pc[Worker] = "sc_done"
    => \A m \in SeqSet(members) \cap SeqSet(pass_members) :
         NotifiedCount(m) = IF AfterRemovedSavedNext(m) THEN 0 ELSE 1

InitReturned(c, v) == pc[c] = "init_done" /\ ret[c] = v

\* C21: openthread_init is balanced on the lock: when it returns, with true
\* or with false, the caller does not own openthread_lock (so that
\* openthread_mutex_lock of another context can return)
C21_InitGateBalanced ==
  \A c \in Threads :
    (InitReturned(c, 1) \/ InitReturned(c, 0)) => lock_owner # c

\* C22: when a call of openthread_init returns true, also one made after a
\* call that returned false, the work queue has been started by
\* k_work_queue_start (so that the submission made by a later
\* otTaskletsSignalPending is run)
C22_TrueMeansQueueStarted ==
  \A c \in Threads :
    InitReturned(c, 1) => (wq_started /\ init_count.queue >= 1)

====
